---- MODULE Spec2Model ----
(***************************************************************************)
(* Model of the BrevardBidderAI skills orchestrator:                       *)
(*   scripts/core/orchestrator.py     SkillsOrchestrator                   *)
(*   scripts/utils/supabase_client.py SupabaseSkillsClient                 *)
(*                                                                         *)
(* Conventions.                                                            *)
(*  - Scores are fixed point, in tenths: 7.0 is 70, the boost 0.5 is 5.    *)
(*    Every score the model handles is a multiple of 0.5, for which the    *)
(*    float additions and comparisons of the code are exact.               *)
(*  - A Python dict is a function whose DOMAIN is the set of keys that     *)
(*    are present; d.get(k, default) is Get(d, k, default).                *)
(*  - A Python str that the code transforms (lower, replace) is a          *)
(*    sequence of one-character strings.                                   *)
(*  - Timestamps (created_at of a pattern row, timestamp of the synthesis  *)
(*    report) are not modelled; the created_at order of skill_tasks is     *)
(*    the order of the rows in the sequence skill_tasks.                   *)
(*  - success_rate is fixed point, in thousandths: 0.8 is 800.             *)
(*  - Of a row the model keeps the columns the orchestrator and the        *)
(*    aggregates read; titles, descriptions, categories, ratings and the   *)
(*    minutes saved are left out.                                          *)
(***************************************************************************)
EXTENDS Integers, Sequences, FiniteSets, TLC

VARIABLES
    dir_exists,       \* the responses directory exists
    files,            \* files[model][ext]: the response file analysis_<model><ext>
    skill_tasks,      \* table skill_tasks, rows in created_at order (oldest first)
    skill_patterns,   \* table skill_patterns, pattern_id -> row
    ret,              \* what the last synthesize_analyses call returned
    analyses,         \* its dict analyses: source -> parsed analysis
    all_skills,       \* its merged skill recommendations, in dict insertion order
    all_patterns,     \* its merged patterns, in dict insertion order, after the boost
    viable_patterns,  \* its list viable_patterns
    saved,            \* the rows its save_pattern calls stored, in call order
    analyzed_ids,     \* its set analyzed_ids
    runs,             \* number of synthesize_analyses calls so far
    analysis_threshold, \* self.analysis_threshold
    ai_skills,        \* table ai_skills, skill_id -> row
    skill_usage,      \* table skill_usage, rows in insertion order
    out,              \* what the last other command or client call returned or wrote
    calls,            \* number of those commands and calls so far
    backend,          \* "up": every request is served; "flaky": a request may fail
    prompted          \* the tasks listed in the analysis prompt files written so far

vars == <<dir_exists, files, skill_tasks, skill_patterns, ret, analyses, all_skills,
          all_patterns, viable_patterns, saved, analyzed_ids, runs,
          analysis_threshold, ai_skills, skill_usage, out, calls, backend, prompted>>

-----------------------------------------------------------------------------
(* Bounds of the model *)

MaxEntries == 3

MaxRuns == 2

\* response files present in the responses directory (parsing and marking
\* families)
MaxFiles == 2

\* rows of skill_tasks
MaxTasks == 3

\* commands other than --synthesize, and client calls, in one run of the model
MaxCalls == 3

\* rows of ai_skills
MaxSkills == 2

-----------------------------------------------------------------------------
(* Program constants *)

\* min_skill_viability, default '7.0'
MinSkillViability == 70

\* the boost step 0.5 of one corroboration level
BoostStep == 5

\* the ceiling 10 of min(10, ...)
ViabilityCeiling == 100

\* pattern.get('skill_viability', 5)
DefaultViability == 50

\* pattern.get('consistency_score', 5)
DefaultConsistency == 50

\* pattern.get('frequency', 1)
DefaultFrequency == 1

\* get_unanalyzed_tasks(self, limit: int = 50)
DefaultLimit == 50

\* ANALYSIS_THRESHOLD, default '10'
DefaultAnalysisThreshold == 10

\* get_unanalyzed_tasks(limit=50) of generate_analysis_prompt
PromptLimit == 50

\* get_underperforming_skills(min_uses=5, ...)
MinUses == 5

\* get_underperforming_skills(..., max_success_rate=0.8)
MaxSuccessRate == 800

\* round(success_rate, 3): thousandths
RateScale == 1000

\* for model in ['claude', 'gemini', 'gpt']
Models == <<"claude", "gemini", "gpt">>

\* for ext in ['.json', '.md']
Exts == <<".json", ".md">>

-----------------------------------------------------------------------------
(* Python helpers *)

\* dict.get(k, default)
Get(d, k, default) == IF k \in DOMAIN d THEN d[k] ELSE default

Min(a, b) == IF a <= b THEN a ELSE b

Max(a, b) == IF a >= b THEN a ELSE b

Range(s) == {s[i] : i \in DOMAIN s}

UpperLetters == <<"A", "B", "C", "D", "E", "F", "G", "H", "I", "J", "K", "L", "M",
                  "N", "O", "P", "Q", "R", "S", "T", "U", "V", "W", "X", "Y", "Z">>

LowerLetters == <<"a", "b", "c", "d", "e", "f", "g", "h", "i", "j", "k", "l", "m",
                  "n", "o", "p", "q", "r", "s", "t", "u", "v", "w", "x", "y", "z">>

\* str.lower(), one character
LowerChar(c) ==
    IF \E i \in DOMAIN UpperLetters : UpperLetters[i] = c
    THEN LowerLetters[CHOOSE i \in DOMAIN UpperLetters : UpperLetters[i] = c]
    ELSE c

\* s.lower().replace(' ', '_')
Normalize(s) ==
    [i \in DOMAIN s |-> IF LowerChar(s[i]) = " " THEN "_" ELSE LowerChar(s[i])]

\* seq[:n] of Python, n of either sign
Slice(s, n) ==
    IF n >= 0 THEN SubSeq(s, 1, Min(n, Len(s)))
    ELSE SubSeq(s, 1, Max(Len(s) + n, 0))

\* list(set(xs)): the distinct elements of xs, in the iteration order of the
\* set, which depends on the string hashes of the process: order is any
\* enumeration of the identifiers, chosen by the caller.
ListOfSet(xs, order) == SelectSeq(order, LAMBDA t : t \in Range(xs))

-----------------------------------------------------------------------------
(* Response files and their parsing: synthesize_analyses, "Load all analysis   *)
(* files".  A file is absent, or holds a text.  Of a text the model keeps what *)
(* json.loads makes of the whole text (whole) and, when the text has a         *)
(* ```json fence, what json.loads makes of the contents of the first fenced    *)
(* block (fence).                                                              *)

Absent == [exists |-> FALSE]

Bad == [kind |-> "bad"]

NoFence == [kind |-> "nofence"]

Parsed(d) == [kind |-> "doc", doc |-> d]

\* a text without a fence
Text(whole) == [exists |-> TRUE, whole |-> whole, fence |-> NoFence]

\* the value json.loads is applied to, and what it gives: for '.md' the
\* contents of the first fenced block when re.search matches, else the text
ParseFile(f, ext) ==
    IF ext = ".md" /\ f.fence.kind # "nofence" THEN f.fence ELSE f.whole

\* variant: a file that fails to parse loads as an empty analysis
RECURSIVE LoadExtsEmptyOnError(_, _, _, _)
LoadExtsEmptyOnError(fs, model, i, cur) ==
    IF i > Len(Exts) THEN cur
    ELSE LET f == fs[model][Exts[i]]
             r == IF f.exists THEN ParseFile(f, Exts[i]) ELSE Bad
             nxt == IF f.exists
                    THEN [m \in DOMAIN cur \cup {model} |->
                             IF m = model
                             THEN (IF r.kind = "doc" THEN r.doc ELSE <<>>)
                             ELSE cur[m]]
                    ELSE cur
         IN  LoadExtsEmptyOnError(fs, model, i + 1, nxt)

\* the inner loop "for ext in ['.json', '.md']" for one model, from the i-th
\* extension on; cur is analyses restricted to what is loaded so far
RECURSIVE LoadExts(_, _, _, _)
LoadExts(fs, model, i, cur) ==
    IF i > Len(Exts) THEN cur
    ELSE LET f == fs[model][Exts[i]]
             r == IF f.exists THEN ParseFile(f, Exts[i]) ELSE Bad
             nxt == IF f.exists /\ r.kind = "doc"
                    THEN [m \in DOMAIN cur \cup {model} |->
                             IF m = model THEN r.doc ELSE cur[m]]
                    ELSE cur
         IN  LoadExts(fs, model, i + 1, nxt)

\* the outer loop "for model in ['claude', 'gemini', 'gpt']"
RECURSIVE LoadModels(_, _, _)
LoadModels(fs, i, cur) ==
    IF i > Len(Models) THEN cur
    ELSE LoadModels(fs, i + 1, LoadExts(fs, Models[i], 1, cur))

\* the dict analyses
LoadAnalyses(fs) == LoadModels(fs, 1, <<>>)

\* iteration order of analyses: insertion order, which is the order of Models
AnalysesOrder(loaded) == SelectSeq(Models, LAMBDA m : m \in DOMAIN loaded)

-----------------------------------------------------------------------------
(* Pattern merge: "Synthesize patterns across models" *)

\* pattern.get('pattern_id') or pattern.get('name', '').lower().replace(' ', '_')
PatternKey(pattern) ==
    IF "pattern_id" \in DOMAIN pattern /\ pattern.pattern_id # <<>>
    THEN pattern.pattern_id
    ELSE Normalize(Get(pattern, "name", <<>>))

IndexOf(acc, pid) ==
    IF \E i \in DOMAIN acc : acc[i].pattern_id = pid
    THEN CHOOSE i \in DOMAIN acc : acc[i].pattern_id = pid
    ELSE 0

\* variant: the later report replaces the earlier one
MergeScoreLast(existing, new) == new

\* max(existing[...], pattern.get(...)) of the merge branch
MergeScore(existing, new) == Max(existing, new)

\* the body of "for pattern in analysis.get('patterns_identified', [])"
MergePattern(acc, model, pattern, order) ==
    LET pid == PatternKey(pattern)
        k == IndexOf(acc, pid)
    IN  IF k = 0
        THEN Append(acc,
                 [pattern_id |-> pid,
                  name |-> Get(pattern, "name", pid),
                  category |-> Get(pattern, "category", "general"),
                  frequency |-> Get(pattern, "frequency", DefaultFrequency),
                  consistency_score |-> Get(pattern, "consistency_score", DefaultConsistency),
                  skill_viability |-> Get(pattern, "skill_viability", DefaultViability),
                  task_references |-> Get(pattern, "task_references", <<>>),
                  models_identified |-> <<model>>])
        ELSE LET existing == acc[k]
             IN  [acc EXCEPT ![k] =
                     [existing EXCEPT
                        !.frequency = MergeScore(existing.frequency,
                                          Get(pattern, "frequency", DefaultFrequency)),
                        !.consistency_score = MergeScore(existing.consistency_score,
                                          Get(pattern, "consistency_score", DefaultConsistency)),
                        !.skill_viability = MergeScore(existing.skill_viability,
                                          Get(pattern, "skill_viability", DefaultViability)),
                        !.task_references = ListOfSet(existing.task_references \o
                                          Get(pattern, "task_references", <<>>), order),
                        !.models_identified = Append(existing.models_identified, model)]]

RECURSIVE MergeList(_, _, _, _, _)
MergeList(acc, model, patterns, i, order) ==
    IF i > Len(patterns) THEN acc
    ELSE MergeList(MergePattern(acc, model, patterns[i], order), model, patterns, i + 1, order)

\* "for model, analysis in analyses.items()"
RECURSIVE MergeModels(_, _, _, _, _)
MergeModels(loaded, ms, i, acc, order) ==
    IF i > Len(ms) THEN acc
    ELSE MergeModels(loaded, ms, i + 1,
             MergeList(acc, ms[i], Get(loaded[ms[i]], "patterns_identified", <<>>), 1, order),
             order)

\* all_patterns before the boost
MergePatterns(loaded, order) ==
    MergeModels(loaded, AnalysesOrder(loaded), 1, <<>>, order)

\* "Boost viability for patterns found by multiple models", one pattern
BoostPattern(pattern) ==
    LET model_count == Len(pattern.models_identified)
        v1 == IF model_count >= 2
              THEN Min(ViabilityCeiling, pattern.skill_viability + BoostStep)
              ELSE pattern.skill_viability
        v2 == IF model_count >= 3
              THEN Min(ViabilityCeiling, v1 + BoostStep)
              ELSE v1
    IN  [pattern EXCEPT !.skill_viability = v2]

\* all_patterns after the boost loop
BoostAll(acc) == [i \in DOMAIN acc |-> BoostPattern(acc[i])]

-----------------------------------------------------------------------------
(* Storage adapter, supabase_client.py.  upsert is create-or-update on the  *)
(* natural key of the table.                                                *)

\* save_pattern: the row it builds from a merged pattern
PatternRow(pattern) ==
    [pattern_id |-> pattern.pattern_id,
     name |-> pattern.name,
     category |-> pattern.category,
     frequency |-> pattern.frequency,
     consistency_score |-> pattern.consistency_score,
     skill_viability |-> pattern.skill_viability,
     task_references |-> pattern.task_references,
     synthesized |-> FALSE]

\* variant: an existing row accumulates the frequency instead of being replaced
save_pattern_accumulate(table, pattern) ==
    [pid \in DOMAIN table \cup {pattern.pattern_id} |->
        IF pid # pattern.pattern_id THEN table[pid]
        ELSE IF pid \in DOMAIN table
             THEN [PatternRow(pattern) EXCEPT !.frequency = @ + table[pid].frequency]
             ELSE PatternRow(pattern)]

\* save_pattern: table skill_patterns after the upsert
save_pattern(table, pattern) ==
    [pid \in DOMAIN table \cup {pattern.pattern_id} |->
        IF pid = pattern.pattern_id THEN PatternRow(pattern) ELSE table[pid]]

Reverse(s) == [i \in DOMAIN s |-> s[Len(s) + 1 - i]]

\* variant: the listing is not filtered by analyzed
get_all_tasks(tasks, limit) == Slice(Reverse(tasks), limit)

\* get_unanalyzed_tasks: analyzed = False, newest first, at most limit rows
get_unanalyzed_tasks(tasks, limit) ==
    Slice(Reverse(SelectSeq(tasks, LAMBDA t : ~t.analyzed)), limit)

\* mark_tasks_analyzed: table skill_tasks after the updates
mark_tasks_analyzed(tasks, task_ids) ==
    [i \in DOMAIN tasks |->
        IF tasks[i].task_id \in task_ids
        THEN [tasks[i] EXCEPT !.analyzed = TRUE]
        ELSE tasks[i]]

\* get_pending_patterns: synthesized = False and skill_viability >= min_viability
\* (as a set of keys; the order by viability is not used by the model)
get_pending_patterns(table, min_viability) ==
    {pid \in DOMAIN table :
        ~table[pid].synthesized /\ table[pid].skill_viability >= min_viability}

\* save_task: table skill_tasks after the upsert of a TaskDoc; the row takes
\* every column of the TaskDoc and created_at = now, so it becomes the newest
save_task_upsert(tasks, task) ==
    Append(SelectSeq(tasks, LAMBDA t : t.task_id # task.task_id),
           [task_id |-> task.task_id, analyzed |-> task.analyzed])

\* count_unanalyzed_tasks
count_unanalyzed_tasks(tasks) == Len(SelectSeq(tasks, LAMBDA t : ~t.analyzed))

\* mark_pattern_synthesized
mark_pattern_synthesized(table, pattern_id) ==
    [pid \in DOMAIN table |->
        IF pid = pattern_id THEN [table[pid] EXCEPT !.synthesized = TRUE] ELSE table[pid]]

\* save_skill: table ai_skills after the upsert of an AISkill
save_skill_upsert(skills, skill) ==
    [sid \in DOMAIN skills \cup {skill.skill_id} |->
        IF sid = skill.skill_id
        THEN [skill_id |-> skill.skill_id,
              total_uses |-> skill.total_uses,
              success_rate |-> skill.success_rate]
        ELSE skills[sid]]

\* round(num / den, 0) for num >= 0, den > 0: the nearest integer; a decimal
\* tie is decided by the binary value of the float, so either neighbour
RoundOutcomes(num, den) ==
    LET q == num \div den
        r == num % den
    IN  IF 2 * r < den THEN {q}
        ELSE IF 2 * r > den THEN {q + 1}
        ELSE {q, q + 1}

\* _update_skill_metrics: table ai_skills after the update, given the usage
\* rows and the rounded success rate
update_skill_metrics(skills, usage, skill_id, rate) ==
    LET usages == SelectSeq(usage, LAMBDA u : u.skill_id = skill_id)
    IN  IF usages = <<>> THEN skills
        ELSE [sid \in DOMAIN skills |->
                 IF sid = skill_id
                 THEN [skills[sid] EXCEPT !.total_uses = Len(usages), !.success_rate = rate]
                 ELSE skills[sid]]

\* the values round(success_rate, 3) can take in _update_skill_metrics
MetricRates(usage, skill_id) ==
    LET usages == SelectSeq(usage, LAMBDA u : u.skill_id = skill_id)
    IN  IF usages = <<>> THEN {0}
        ELSE RoundOutcomes(RateScale * Len(SelectSeq(usages, LAMBDA u : u.success)),
                           Len(usages))

\* log_usage: the tables ai_skills and skill_usage after the call, given the
\* rounded success rate.  skill_usage.skill_id references ai_skills(skill_id):
\* the insert of a usage of an unknown skill is rejected and the call raises.
LogUsage(skills, usage, event, rate) ==
    IF event.skill_id \notin DOMAIN skills
    THEN [out |-> [cmd |-> "log_usage", kind |-> "raised"],
          skills |-> skills, usage |-> usage]
    ELSE [out |-> [cmd |-> "log_usage", kind |-> "logged", skill_id |-> event.skill_id],
          skills |-> update_skill_metrics(skills, Append(usage, event), event.skill_id, rate),
          usage |-> Append(usage, event)]

\* get_underperforming_skills
get_underperforming_skills(skills, min_uses, max_success_rate) ==
    {sid \in DOMAIN skills :
        skills[sid].total_uses >= min_uses /\ skills[sid].success_rate < max_success_rate}

\* sum(f[x] for x in S)
RECURSIVE SumOver(_, _)
SumOver(f, S) ==
    IF S = {} THEN 0
    ELSE LET x == CHOOSE y \in S : TRUE IN f[x] + SumOver(f, S \ {x})

\* the values round(avg_success_rate, 3) can take in get_system_overview
OverviewRates(skills) ==
    IF DOMAIN skills = {} THEN {0}
    ELSE RoundOutcomes(SumOver([sid \in DOMAIN skills |-> skills[sid].success_rate],
                               DOMAIN skills),
                       Cardinality(DOMAIN skills))

\* get_system_overview, given the rounded average
get_system_overview(tasks, skills, patterns, avg) ==
    [total_tasks |-> Len(tasks),
     total_skills |-> Cardinality(DOMAIN skills),
     total_patterns |-> Cardinality(DOMAIN patterns),
     total_uses |-> SumOver([sid \in DOMAIN skills |-> skills[sid].total_uses], DOMAIN skills),
     avg_success_rate |-> avg,
     pending_analysis |-> count_unanalyzed_tasks(tasks)]

-----------------------------------------------------------------------------
(* The other commands of the orchestrator *)

\* variant: the threshold itself is not enough
check_analysis_ready_strict(tasks, threshold) == count_unanalyzed_tasks(tasks) > threshold

\* check_analysis_ready
check_analysis_ready(tasks, threshold) == count_unanalyzed_tasks(tasks) >= threshold

\* generate_analysis_prompt: the prompt it writes over the listed tasks, or
\* nothing when no task is listed
generate_analysis_prompt(tasks) ==
    LET listed == get_unanalyzed_tasks(tasks, PromptLimit)
    IN  IF listed = <<>> THEN [cmd |-> "analyze", kind |-> "no_tasks"]
        ELSE [cmd |-> "analyze", kind |-> "prompt",
              tasks |-> [i \in DOMAIN listed |-> listed[i].task_id],
              tasks_analyzed |-> Len(listed)]

\* the tasks a prompt file lists: output_path.write_text(prompt)
PromptTasks(o) == IF o.kind = "prompt" THEN Range(o.tasks) ELSE {}

\* main, --analyze
Analyze(tasks, threshold) ==
    IF check_analysis_ready(tasks, threshold)
    THEN generate_analysis_prompt(tasks)
    ELSE [cmd |-> "analyze", kind |-> "not_ready"]

\* generate_skills: the patterns it writes a skill prompt for
GenerateSkills(table) ==
    [cmd |-> "generate", generated |-> get_pending_patterns(table, MinSkillViability)]

\* optimize_skills: the skills it writes an optimization prompt for
OptimizeSkills(skills) ==
    [cmd |-> "optimize",
     optimizations |-> get_underperforming_skills(skills, MinUses, MaxSuccessRate)]

\* status: the overview it returns and the readiness it logs
Status(tasks, skills, patterns, threshold, avg) ==
    LET overview == get_system_overview(tasks, skills, patterns, avg)
    IN  [cmd |-> "status", overview |-> overview,
         ready |-> overview.pending_analysis >= threshold]

-----------------------------------------------------------------------------
(* synthesize_analyses, after the merge *)

\* variant: the threshold itself is not viable
IsViableStrict(pattern) == pattern.skill_viability > MinSkillViability

\* pattern['skill_viability'] >= self.min_skill_viability
IsViable(pattern) == pattern.skill_viability >= MinSkillViability

\* variant: only viable patterns are saved
SaveStepViableOnly(st, pattern) ==
    IF pattern.skill_viability >= MinSkillViability
    THEN [table |-> save_pattern(st.table, pattern),
          saved |-> Append(st.saved, PatternRow(pattern)),
          viable |-> Append(st.viable, pattern)]
    ELSE st

\* "Save patterns to database", the loop body: st carries the table, the rows
\* handed to save_pattern and viable_patterns
SaveStep(st, pattern) ==
    [table |-> save_pattern(st.table, pattern),
     saved |-> Append(st.saved, PatternRow(pattern)),
     viable |-> IF IsViable(pattern) THEN Append(st.viable, pattern) ELSE st.viable]

\* the loop "for pattern in all_patterns.values()", from the i-th pattern on.
\* fail_at is the position of the save_pattern call the backend rejects (none
\* when it is 0 or beyond the last pattern): the rejected call stores nothing
\* and its exception ends the loop.
RECURSIVE SaveLoop(_, _, _, _)
SaveLoop(patterns, i, st, fail_at) ==
    IF i > Len(patterns) THEN [st |-> st, raised |-> FALSE]
    ELSE IF i = fail_at THEN [st |-> st, raised |-> TRUE]
    ELSE SaveLoop(patterns, i + 1, SaveStep(st, patterns[i]), fail_at)

\* skill.get('skill_name', '').lower().replace(' ', '_')
SkillKey(skill) == Normalize(Get(skill, "skill_name", <<>>))

\* variant: a later proposal replaces the fields of the entry
MergeSkillKeepLast(acc, model, skill) ==
    LET name == SkillKey(skill)
    IN  IF \E i \in DOMAIN acc : acc[i].key = name
        THEN LET k == CHOOSE i \in DOMAIN acc : acc[i].key = name
             IN  [acc EXCEPT ![k].entry =
                     [models_recommended |-> Append(@.models_recommended, model)] @@ skill]
        ELSE Append(acc, [key |-> name,
                          entry |-> [models_recommended |-> <<model>>] @@ skill])

\* "Synthesize skill recommendations": one recommendation.  all_skills is a
\* sequence of [key, entry] in dict insertion order; a new entry is
\* {**skill, 'models_recommended': [model]}
MergeSkill(acc, model, skill) ==
    LET name == SkillKey(skill)
    IN  IF \E i \in DOMAIN acc : acc[i].key = name
        THEN LET k == CHOOSE i \in DOMAIN acc : acc[i].key = name
             IN  [acc EXCEPT ![k].entry.models_recommended = Append(@, model)]
        ELSE Append(acc, [key |-> name,
                          entry |-> [models_recommended |-> <<model>>] @@ skill])

RECURSIVE MergeSkillList(_, _, _, _)
MergeSkillList(acc, model, skills, i) ==
    IF i > Len(skills) THEN acc
    ELSE MergeSkillList(MergeSkill(acc, model, skills[i]), model, skills, i + 1)

RECURSIVE MergeSkillModels(_, _, _, _)
MergeSkillModels(loaded, ms, i, acc) ==
    IF i > Len(ms) THEN acc
    ELSE MergeSkillModels(loaded, ms, i + 1,
             MergeSkillList(acc, ms[i], Get(loaded[ms[i]], "recommended_skills", <<>>), 1))

\* all_skills, in insertion order
MergeSkills(loaded) == MergeSkillModels(loaded, AnalysesOrder(loaded), 1, <<>>)

\* variant: every listed task is taken, whatever the source reports
AnalyzedIdsAllListed(loaded, tasks) ==
    {t.task_id : t \in Range(get_unanalyzed_tasks(tasks, DefaultLimit))}

\* "Mark analyzed tasks": analyzed_ids
AnalyzedIds(loaded, tasks) ==
    UNION {{t.task_id : t \in Range(Slice(get_unanalyzed_tasks(tasks, DefaultLimit),
                                          Get(loaded[m], "tasks_analyzed", 0)))}
           : m \in DOMAIN loaded}

\* variant: the tasks are marked although the save loop raised
TasksAfterMarkAnyway(raised, ids, tasks) ==
    IF ids = {} THEN tasks ELSE mark_tasks_analyzed(tasks, ids)

\* table skill_tasks at the end of the call: "Mark analyzed tasks" comes after
\* the save loop, and is not reached when the loop raised
TasksAfter(raised, ids, tasks) ==
    IF raised \/ ids = {} THEN tasks ELSE mark_tasks_analyzed(tasks, ids)

\* "return {}" of the two early exits: nothing is merged, saved or marked
EmptyResult(tasks, table) ==
    [ret |-> [kind |-> "empty"], analyses |-> <<>>, all_skills |-> <<>>,
     all_patterns |-> <<>>, viable_patterns |-> <<>>,
     saved |-> <<>>, analyzed_ids |-> {}, tasks |-> tasks, table |-> table]

\* synthesize_analyses from "Synthesize patterns across models" to the end:
\* what it returns, its locals at the end, and the tables it leaves
SynthesizeLoaded(loaded, tasks, table, order, fail_at) ==
    LET merged == BoostAll(MergePatterns(loaded, order))
        lp == SaveLoop(merged, 1, [table |-> table, saved |-> <<>>, viable |-> <<>>],
                       fail_at)
        st == lp.st
        skills == MergeSkills(loaded)
        ids == AnalyzedIds(loaded, tasks)
    IN  IF lp.raised
        THEN [ret |-> [kind |-> "raised"],
              analyses |-> loaded,
              all_skills |-> <<>>,
              all_patterns |-> merged,
              viable_patterns |-> st.viable,
              saved |-> st.saved,
              analyzed_ids |-> {},
              tasks |-> TasksAfter(TRUE, ids, tasks),
              table |-> st.table]
        ELSE
        [ret |-> [kind |-> "synthesis",
                  models_used |-> AnalysesOrder(loaded),
                  patterns_found |-> Len(merged),
                  viable_patterns |-> Len(st.viable),
                  skills_recommended |-> Len(skills),
                  tasks_marked_analyzed |-> Cardinality(ids)],
         analyses |-> loaded,
         all_skills |-> skills,
         all_patterns |-> merged,
         viable_patterns |-> st.viable,
         saved |-> st.saved,
         analyzed_ids |-> ids,
         tasks |-> TasksAfter(FALSE, ids, tasks),
         table |-> st.table]

\* variant: without the "if not analyses" exit
SynthesizeUnguarded(dir, fs, tasks, table, order, fail_at) ==
    IF ~dir THEN EmptyResult(tasks, table)
    ELSE SynthesizeLoaded(LoadAnalyses(fs), tasks, table, order, fail_at)

\* synthesize_analyses as a function of the directory, the files, the two
\* tables, the set iteration order of the process and the save_pattern call
\* the backend rejects
Synthesize(dir, fs, tasks, table, order, fail_at) ==
    IF ~dir THEN EmptyResult(tasks, table)
    ELSE IF DOMAIN LoadAnalyses(fs) = {} THEN EmptyResult(tasks, table)
    ELSE SynthesizeLoaded(LoadAnalyses(fs), tasks, table, order, fail_at)

-----------------------------------------------------------------------------
(* Inputs *)

p1 == <<"p", "1">>

p2 == <<"p", "2">>

TaskIds == {"t1", "t2"}

\* the iteration orders a set of task identifiers can have
Orders == {s \in [1..Cardinality(TaskIds) -> TaskIds] : Range(s) = TaskIds}

\* pattern entries that differ in key and viability (absent: the default 5)
ViabilityPatterns ==
    {[pattern_id |-> p1]}
    \cup {[pattern_id |-> k, skill_viability |-> v] : k \in {p1, p2}, v \in {65, 110}}

\* pattern entries for one key that differ in the three scores
ScorePatterns ==
    {[pattern_id |-> p1, skill_viability |-> v] @@ fc :
        v \in {65, 110},
        fc \in {[frequency |-> 3], [consistency_score |-> 80]}}

\* pattern entries that differ in key (given, or derived from the name) and
\* in task_references
RefPatterns ==
    {[pattern_id |-> p1]}
    \cup {k @@ r :
            k \in {[pattern_id |-> p1], [name |-> <<"P", " ", "2">>]},
            r \in {[task_references |-> <<"t1", "t1">>],
                   [task_references |-> <<"t2", "t1">>]}}

\* the tasks documented before the responses are synthesized
InitialTasks ==
    <<[task_id |-> "t1", analyzed |-> FALSE], [task_id |-> "t2", analyzed |-> FALSE]>>

\* no command has run yet
NothingRun ==
    /\ ret = [kind |-> "none"]
    /\ analyses = <<>>
    /\ all_skills = <<>>
    /\ all_patterns = <<>>
    /\ viable_patterns = <<>>
    /\ saved = <<>>
    /\ analyzed_ids = {}
    /\ runs = 0
    /\ out = [cmd |-> "none"]
    /\ calls = 0
    /\ prompted = {}

\* the default configuration and no skill yet
NoSkills ==
    /\ analysis_threshold = DefaultAnalysisThreshold
    /\ ai_skills = <<>>
    /\ skill_usage = <<>>

\* the save_pattern calls of one run the backend may reject: none when it is
\* up, any one of them (0: none) when it is flaky
FailPoints(b) == IF b = "up" THEN {0} ELSE 0..MaxEntries

Lists(E, n) == UNION {[1..k -> E] : k \in 0..n}

\* an analysis document with the given patterns_identified, one recommended
\* skill and one task reported as analyzed
Doc(patterns) ==
    [patterns_identified |-> patterns,
     recommended_skills |-> <<[skill_name |-> <<"A", " ", "b">>]>>,
     tasks_analyzed |-> 1]

\* what analysis_<model>.json can be: absent, unparsable, or a document with at
\* most n pattern entries drawn from E
Choices(E, n) ==
    {Absent, Text(Bad)} \cup {Text(Parsed(Doc(l))) : l \in Lists(E, n)}

Entries(f) ==
    IF f.exists /\ f.whole.kind = "doc" THEN Len(f.whole.doc.patterns_identified) ELSE 0

\* the response files hold, over all sources, at most MaxEntries pattern
\* entries drawn from E
ResponsesWith(E) ==
    /\ \E c1 \in Choices(E, MaxEntries) :
       \E c2 \in Choices(E, MaxEntries - Entries(c1)) :
       \E c3 \in Choices(E, MaxEntries - Entries(c1) - Entries(c2)) :
          /\ files = [m \in Range(Models) |->
                        [e \in Range(Exts) |->
                           IF e # ".json" THEN Absent
                           ELSE IF m = Models[1] THEN c1
                           ELSE IF m = Models[2] THEN c2 ELSE c3]]
          /\ dir_exists \in (IF c1 = Absent /\ c2 = Absent /\ c3 = Absent
                             THEN BOOLEAN ELSE {TRUE})

\* the state before the first synthesis, with a backend that serves every
\* request
InitWith(E) ==
    /\ ResponsesWith(E)
    /\ skill_tasks = InitialTasks
    /\ skill_patterns = <<>>
    /\ NothingRun
    /\ NoSkills
    /\ backend = "up"

\* pattern entries of two keys, one of them viable
FailPatterns == {[pattern_id |-> p1], [pattern_id |-> p2, skill_viability |-> 70]}

\* the state before the first synthesis, with a backend that may reject a
\* save_pattern call
InitFail ==
    /\ ResponsesWith(FailPatterns)
    /\ skill_tasks = InitialTasks
    /\ skill_patterns = <<>>
    /\ NothingRun
    /\ NoSkills
    /\ backend = "flaky"

\* two analysis documents that differ in their only pattern
DocOne == Doc(<<[pattern_id |-> p1]>>)

DocTwo == Doc(<<[pattern_id |-> p2]>>)

\* the texts a response file can hold: the whole text is rejected by json.loads
\* or is a document, and the text has no ```json fence, a fence around text
\* that json.loads rejects, or a fence around a document
Texts ==
    {[exists |-> TRUE, whole |-> w, fence |-> f] :
        w \in {Bad, Parsed(DocOne), Parsed(DocTwo)},
        f \in {NoFence, Bad, Parsed(DocTwo)}}

\* the file names the load loop looks for
Slots == Range(Models) \X Range(Exts)

\* the state before the first synthesis: at most MaxFiles response files, of
\* either extension, each holding one of Texts
InitParse ==
    /\ \E S \in {T \in SUBSET Slots : Cardinality(T) <= MaxFiles} :
       \E t \in [S -> Texts] :
          /\ files = [m \in Range(Models) |->
                        [e \in Range(Exts) |->
                           IF <<m, e>> \in S THEN t[<<m, e>>] ELSE Absent]]
          /\ dir_exists \in (IF S = {} THEN BOOLEAN ELSE {TRUE})
    /\ skill_tasks = InitialTasks
    /\ skill_patterns = <<>>
    /\ NothingRun
    /\ NoSkills
    /\ backend = "up"

\* task identifiers, in the order the tasks are documented
TaskNames == <<"t1", "t2", "t3", "t4">>

\* the tables skill_tasks can hold after at most n tasks were documented and
\* some of them analyzed
TaskTables(n) ==
    UNION {{[i \in 1..k |-> [task_id |-> TaskNames[i], analyzed |-> b[i]]] :
                b \in [1..k -> BOOLEAN]}
           : k \in 0..n}

\* analysis documents without patterns that differ in tasks_analyzed: absent,
\* or 0, 1 or 2
CountDocs ==
    {[patterns_identified |-> <<>>, recommended_skills |-> <<>>]}
    \cup {[patterns_identified |-> <<>>, recommended_skills |-> <<>>, tasks_analyzed |-> n] :
            n \in 0..2}

\* the state before the first synthesis: at most MaxTasks documented tasks,
\* at most MaxFiles analysis_<model>.json files, each holding one of CountDocs
InitMark ==
    /\ \E S \in {T \in SUBSET Range(Models) : Cardinality(T) <= MaxFiles} :
       \E d \in [S -> CountDocs] :
          /\ files = [m \in Range(Models) |->
                        [e \in Range(Exts) |->
                           IF e = ".json" /\ m \in S THEN Text(Parsed(d[m])) ELSE Absent]]
          /\ dir_exists = TRUE
    /\ skill_tasks \in TaskTables(MaxTasks)
    /\ skill_patterns = <<>>
    /\ NothingRun
    /\ NoSkills
    /\ backend = "up"

\* the values ANALYSIS_THRESHOLD is given: int() accepts any integer
Thresholds == {0, 1, 2}

\* an analysis with one pattern at the viability threshold that reports one
\* task, and one with a pattern below the threshold that reports two
OpsDocs ==
    {[patterns_identified |-> <<[pattern_id |-> p1, skill_viability |-> 70]>>,
      recommended_skills |-> <<>>, tasks_analyzed |-> 1],
     [patterns_identified |-> <<[pattern_id |-> p2, skill_viability |-> 65]>>,
      recommended_skills |-> <<>>, tasks_analyzed |-> 2]}

\* the TaskDocs an external caller hands to save_task: a task already
\* documented, or the next new one, with either value of analyzed
TaskDocs(tasks) ==
    {[task_id |-> id, analyzed |-> b] :
        id \in {tasks[i].task_id : i \in DOMAIN tasks}
               \cup (IF Len(tasks) < MaxTasks THEN {TaskNames[Len(tasks) + 1]} ELSE {}),
        b \in BOOLEAN}

\* recommended skills: two spellings of one name with different fields, one
\* of them carrying a models_recommended of its own, another name, and an
\* entry without skill_name
SkillRecs ==
    {[skill_name |-> <<"A", " ", "b">>, viability_score |-> 9],
     [skill_name |-> <<"a", "_", "b">>, viability_score |-> 7,
      models_recommended |-> <<"x">>],
     [skill_name |-> <<"C">>],
     [category |-> "api"]}

\* an analysis document with the given recommended_skills only
RecDoc(skills) ==
    [patterns_identified |-> <<>>, recommended_skills |-> skills, tasks_analyzed |-> 0]

RecChoices(n) == {Absent} \cup {Text(Parsed(RecDoc(l))) : l \in Lists(SkillRecs, n)}

Recs(f) == IF f.exists THEN Len(f.whole.doc.recommended_skills) ELSE 0

\* the state before the first synthesis: the response files hold, over all
\* sources, at most MaxEntries recommended skills drawn from SkillRecs
InitRecs ==
    /\ \E c1 \in RecChoices(MaxEntries) :
       \E c2 \in RecChoices(MaxEntries - Recs(c1)) :
       \E c3 \in RecChoices(MaxEntries - Recs(c1) - Recs(c2)) :
          /\ files = [m \in Range(Models) |->
                        [e \in Range(Exts) |->
                           IF e # ".json" THEN Absent
                           ELSE IF m = Models[1] THEN c1
                           ELSE IF m = Models[2] THEN c2 ELSE c3]]
          /\ dir_exists = TRUE
    /\ skill_tasks = InitialTasks
    /\ skill_patterns = <<>>
    /\ NothingRun
    /\ NoSkills
    /\ backend = "up"

\* skill identifiers
SkillNames == <<"s1", "s2", "s3">>

SkillIds == {SkillNames[i] : i \in 1..MaxSkills}

\* the AISkills a caller hands to save_skill: the aggregates left at their
\* defaults, or set by the caller
AISkills ==
    {[skill_id |-> id, total_uses |-> a[1], success_rate |-> a[2]] :
        id \in SkillIds, a \in {<<0, 0>>, <<5, 500>>}}

\* the SkillUsages a caller hands to log_usage
SkillUsages == {[skill_id |-> id, success |-> b] : id \in SkillIds, b \in BOOLEAN}

\* a fresh installation with the default configuration and no response file
InitSkills ==
    /\ files = [m \in Range(Models) |-> [e \in Range(Exts) |-> Absent]]
    /\ dir_exists = TRUE
    /\ skill_tasks = <<>>
    /\ skill_patterns = <<>>
    /\ NothingRun
    /\ NoSkills
    /\ backend = "up"

\* the state of a fresh installation: no task, pattern or skill, a threshold,
\* and at most MaxFiles analysis_<model>.json files, each holding one of OpsDocs
InitOps ==
    /\ \E S \in {T \in SUBSET Range(Models) : Cardinality(T) <= MaxFiles} :
       \E d \in [S -> OpsDocs] :
          /\ files = [m \in Range(Models) |->
                        [e \in Range(Exts) |->
                           IF e = ".json" /\ m \in S THEN Text(Parsed(d[m])) ELSE Absent]]
          /\ dir_exists = TRUE
    /\ skill_tasks = <<>>
    /\ skill_patterns = <<>>
    /\ NothingRun
    /\ analysis_threshold \in Thresholds
    /\ ai_skills = <<>>
    /\ skill_usage = <<>>
    /\ backend = "up"

-----------------------------------------------------------------------------
(* Actions *)

\* orchestrator.py --synthesize
synthesize_analyses ==
    /\ runs < MaxRuns
    /\ \E order \in Orders :
       \E fail_at \in FailPoints(backend) :
       \E r \in {Synthesize(dir_exists, files, skill_tasks, skill_patterns, order, fail_at)} :
             /\ ret' = r.ret
             /\ analyses' = r.analyses
             /\ all_skills' = r.all_skills
             /\ all_patterns' = r.all_patterns
             /\ viable_patterns' = r.viable_patterns
             /\ saved' = r.saved
             /\ analyzed_ids' = r.analyzed_ids
             /\ skill_tasks' = r.tasks
             /\ skill_patterns' = r.table
    /\ runs' = runs + 1
    /\ UNCHANGED <<dir_exists, files, analysis_threshold, ai_skills, skill_usage, out, calls,
                   backend, prompted>>

\* what synthesize_analyses reads and writes, and the backend
synthesisVars ==
    <<dir_exists, files, ret, analyses, all_skills, all_patterns, viable_patterns,
      saved, analyzed_ids, runs, backend>>

\* SupabaseSkillsClient.save_task, called by an external documenter
save_task ==
    /\ calls < MaxCalls
    /\ \E task \in TaskDocs(skill_tasks) :
          /\ skill_tasks' = save_task_upsert(skill_tasks, task)
          /\ out' = [cmd |-> "save_task", task_id |-> task.task_id]
    /\ calls' = calls + 1
    /\ UNCHANGED <<synthesisVars, prompted, skill_patterns, analysis_threshold, ai_skills, skill_usage>>

\* orchestrator.py --analyze
analyze ==
    /\ calls < MaxCalls
    /\ out' = Analyze(skill_tasks, analysis_threshold)
    /\ prompted' = prompted \cup PromptTasks(out')
    /\ calls' = calls + 1
    /\ UNCHANGED <<synthesisVars, skill_tasks, skill_patterns, analysis_threshold,
                   ai_skills, skill_usage>>

\* orchestrator.py --generate
generate_skills ==
    /\ calls < MaxCalls
    /\ out' = GenerateSkills(skill_patterns)
    /\ calls' = calls + 1
    /\ UNCHANGED <<synthesisVars, prompted, skill_tasks, skill_patterns, analysis_threshold,
                   ai_skills, skill_usage>>

\* orchestrator.py --optimize
optimize_skills ==
    /\ calls < MaxCalls
    /\ out' = OptimizeSkills(ai_skills)
    /\ calls' = calls + 1
    /\ UNCHANGED <<synthesisVars, prompted, skill_tasks, skill_patterns, analysis_threshold,
                   ai_skills, skill_usage>>

\* orchestrator.py --status
status ==
    /\ calls < MaxCalls
    /\ \E avg \in OverviewRates(ai_skills) :
          out' = Status(skill_tasks, ai_skills, skill_patterns, analysis_threshold, avg)
    /\ calls' = calls + 1
    /\ UNCHANGED <<synthesisVars, prompted, skill_tasks, skill_patterns, analysis_threshold,
                   ai_skills, skill_usage>>

\* SupabaseSkillsClient.save_skill, called by whoever registers a skill
save_skill ==
    /\ calls < MaxCalls
    /\ \E skill \in AISkills :
          /\ ai_skills' = save_skill_upsert(ai_skills, skill)
          /\ out' = [cmd |-> "save_skill", skill_id |-> skill.skill_id]
    /\ calls' = calls + 1
    /\ UNCHANGED <<synthesisVars, prompted, skill_tasks, skill_patterns, analysis_threshold, skill_usage>>

\* SupabaseSkillsClient.log_usage, called by whoever used a skill
log_usage ==
    /\ calls < MaxCalls
    /\ \E event \in SkillUsages :
       \E rate \in MetricRates(Append(skill_usage, event), event.skill_id) :
       \E r \in {LogUsage(ai_skills, skill_usage, event, rate)} :
          /\ ai_skills' = r.skills
          /\ skill_usage' = r.usage
          /\ out' = r.out
    /\ calls' = calls + 1
    /\ UNCHANGED <<synthesisVars, prompted, skill_tasks, skill_patterns, analysis_threshold>>

\* SupabaseSkillsClient.mark_pattern_synthesized, called by whoever turned
\* the skill prompt of a pattern into a skill
mark_pattern ==
    /\ calls < MaxCalls
    /\ \E pid \in {p1, p2} :
          /\ skill_patterns' = mark_pattern_synthesized(skill_patterns, pid)
          /\ out' = [cmd |-> "mark_pattern_synthesized", pattern_id |-> pid]
    /\ calls' = calls + 1
    /\ UNCHANGED <<synthesisVars, prompted, skill_tasks, analysis_threshold, ai_skills, skill_usage>>

Init == InitWith(ViabilityPatterns)

Next == synthesize_analyses

Spec == Init /\ [][Next]_vars

\* the same system over responses that differ in the three scores
InitScores == InitWith(ScorePatterns)

SpecScores == InitScores /\ [][Next]_vars

\* the same system over responses that differ in task_references
InitRefs == InitWith(RefPatterns)

SpecRefs == InitRefs /\ [][Next]_vars

\* the same system over task tables and responses that differ in
\* tasks_analyzed
SpecMark == InitMark /\ [][Next]_vars

\* the commands of the orchestrator and the documenter's save_task, in any
\* order
NextOps ==
    \/ save_task
    \/ analyze
    \/ synthesize_analyses
    \/ generate_skills
    \/ optimize_skills
    \/ status

SpecOps == InitOps /\ [][NextOps]_vars

\* the skill library: skills are registered and used, and the orchestrator
\* reports on them
NextSkills ==
    \/ save_skill
    \/ log_usage
    \/ status
    \/ optimize_skills

SpecSkills == InitSkills /\ [][NextSkills]_vars

\* the same system over responses that differ in recommended_skills
SpecRecs == InitRecs /\ [][Next]_vars

\* the same system with a backend that may reject a save_pattern call
SpecFail == InitFail /\ [][Next]_vars

\* the life of a pattern: synthesized, offered for skill generation, marked
NextPatterns ==
    \/ synthesize_analyses
    \/ generate_skills
    \/ mark_pattern

SpecPatterns == InitOps /\ [][NextPatterns]_vars

\* the same system over response files of both extensions, with and without
\* a fenced block
SpecParse == InitParse /\ [][Next]_vars

-----------------------------------------------------------------------------
(* What the sources reported, read off the response files *)

\* the pattern entries of source m whose merge key is k
EntriesFor(m, k) ==
    LET l == Get(LoadAnalyses(files)[m], "patterns_identified", <<>>)
    IN  {i \in DOMAIN l : PatternKey(l[i]) = k}

\* the sources that proposed key k
SourcesOf(k) == {m \in DOMAIN LoadAnalyses(files) : EntriesFor(m, k) # {}}

\* the pattern entries the sources reported for key k
ReportedEntries(k) ==
    UNION {{LoadAnalyses(files)[m].patterns_identified[i] : i \in EntriesFor(m, k)}
           : m \in DOMAIN LoadAnalyses(files)}

\* the values the sources gave for a score of key k, as the code reads them
ReportedScores(k, field, default) ==
    {Get(e, field, default) : e \in ReportedEntries(k)}

\* the values the sources gave explicitly
GivenScores(k, field) ==
    {e[field] : e \in {x \in ReportedEntries(k) : field \in DOMAIN x}}

SetMax(S) == CHOOSE x \in S : \A y \in S : y <= x

\* a synthesis has completed with at least one parsed source
Synthesized == ret.kind = "synthesis"

MergedKeys == {all_patterns[i].pattern_id : i \in DOMAIN all_patterns}

\* the boost the specification grants to n independent sources
BoostFor(n) == IF n >= 3 THEN 2 * BoostStep ELSE IF n = 2 THEN BoostStep ELSE 0

-----------------------------------------------------------------------------
(* Claims *)

\* C1: every merged pattern that synthesize_analyses persists has
\* skill_viability <= 10, whatever viabilities the sources report.
C1_PersistedViabilityAtMostTen ==
    /\ \A i \in DOMAIN saved : saved[i].skill_viability <= ViabilityCeiling
    /\ \A pid \in DOMAIN skill_patterns :
          skill_patterns[pid].skill_viability <= ViabilityCeiling

\* C3: a key proposed by n independent sources with maximum reported
\* viability m is persisted with min(10, m + b), b = 0, 0.5, 1.0 for
\* n = 1, n = 2, n >= 3.
C3_BoostBySourceCount ==
    Synthesized =>
        \A pid \in MergedKeys :
            skill_patterns[pid].skill_viability =
                Min(ViabilityCeiling,
                    SetMax(ReportedScores(pid, "skill_viability", DefaultViability))
                      + BoostFor(Cardinality(SourcesOf(pid))))

\* C4: a key that appears in the response of only one source is persisted
\* with the maximum viability that source reported for it, unboosted, also
\* when the source lists the key more than once.
C4_SingleSourceNoBoost ==
    Synthesized =>
        \A pid \in MergedKeys :
            Cardinality(SourcesOf(pid)) = 1 =>
                skill_patterns[pid].skill_viability =
                    SetMax(ReportedScores(pid, "skill_viability", DefaultViability))

\* C6: a merged pattern is counted as viable iff its post-boost
\* skill_viability is >= min_skill_viability (inclusive).
C6_ViableIffAtLeastThreshold ==
    Synthesized =>
        /\ \A i \in DOMAIN all_patterns :
              (\E j \in DOMAIN viable_patterns :
                    viable_patterns[j].pattern_id = all_patterns[i].pattern_id)
              <=> all_patterns[i].skill_viability >= MinSkillViability
        /\ ret.viable_patterns =
              Cardinality({i \in DOMAIN all_patterns :
                              all_patterns[i].skill_viability >= MinSkillViability})

\* C6 witness: one pattern exactly at the threshold counted viable, another
\* below it not counted
C6_Witness ==
    /\ Synthesized
    /\ \E j \in DOMAIN viable_patterns :
          viable_patterns[j].skill_viability = MinSkillViability
    /\ \E i \in DOMAIN all_patterns :
          /\ all_patterns[i].skill_viability < MinSkillViability
          /\ \A j \in DOMAIN viable_patterns :
                viable_patterns[j].pattern_id # all_patterns[i].pattern_id

\* C7: when synthesize_analyses completes, every merged pattern, viable or
\* not, has been handed to save_pattern exactly once and is stored with its
\* post-boost values, and the pending candidates for skill generation among
\* them are exactly the viable ones.
C7_EveryPatternPersistedOnce ==
    Synthesized =>
        /\ Len(saved) = Len(all_patterns)
        /\ \A i \in DOMAIN all_patterns :
              LET pattern == all_patterns[i]
              IN  /\ Cardinality({j \in DOMAIN saved :
                                     saved[j].pattern_id = pattern.pattern_id}) = 1
                  /\ pattern.pattern_id \in DOMAIN skill_patterns
                  /\ \A row \in {saved[i], skill_patterns[pattern.pattern_id]} :
                        /\ row.pattern_id = pattern.pattern_id
                        /\ row.frequency = pattern.frequency
                        /\ row.consistency_score = pattern.consistency_score
                        /\ row.skill_viability = pattern.skill_viability
                        /\ row.task_references = pattern.task_references
        /\ get_pending_patterns(skill_patterns, MinSkillViability) \cap MergedKeys
              = {viable_patterns[j].pattern_id : j \in DOMAIN viable_patterns}

\* C7 witness: a completed synthesis that stored a viable and a non-viable
\* pattern
C7_Witness ==
    /\ Synthesized
    /\ \E pid \in DOMAIN skill_patterns :
          skill_patterns[pid].skill_viability >= MinSkillViability
    /\ \E pid \in DOMAIN skill_patterns :
          /\ pid \in MergedKeys
          /\ skill_patterns[pid].skill_viability < MinSkillViability

\* a response file whose text json.loads rejects
Unparsable(fs, m, e) == fs[m][e].exists /\ ParseFile(fs[m][e], e).kind = "bad"

\* the response files with every unparsable file removed
WithoutUnparsable(fs) ==
    [m \in DOMAIN fs |->
        [e \in DOMAIN fs[m] |-> IF Unparsable(fs, m, e) THEN Absent ELSE fs[m][e]]]

\* the sources none of whose files parses
FailedSources == {m \in DOMAIN files : \A e \in DOMAIN files[m] : ~files[m][e].exists \/ Unparsable(files, m, e)}

\* C9: a source whose response cannot be parsed contributes nothing and
\* does not abort the synthesis: the call returns, and what it returns, merges,
\* saves and marks is what it would with the unparsable files absent.
C9_UnparsableSourceIsSkipped ==
    [][(\E m \in DOMAIN files : \E e \in DOMAIN files[m] : Unparsable(files, m, e)) =>
        /\ ret'.kind \in {"empty", "synthesis"}
        /\ \E order \in Orders :
           \E r \in {Synthesize(dir_exists, WithoutUnparsable(files), skill_tasks,
                                skill_patterns, order, 0)} :
              /\ ret' = r.ret
              /\ all_patterns' = r.all_patterns
              /\ viable_patterns' = r.viable_patterns
              /\ saved' = r.saved
              /\ analyzed_ids' = r.analyzed_ids
              /\ skill_tasks' = r.tasks
              /\ skill_patterns' = r.table
        /\ ret'.kind = "synthesis" =>
              /\ Range(ret'.models_used) \cap FailedSources = {}
              /\ \A i \in DOMAIN all_patterns' :
                    Range(all_patterns'[i].models_identified) \cap FailedSources = {}
      ]_vars

\* C9 witness: one source unparsable, another parsed, and its patterns
\* merged and saved
C9_Witness ==
    /\ Synthesized
    /\ \E m \in FailedSources : Unparsable(files, m, ".json")
    /\ saved # <<>>
    /\ \E i \in DOMAIN all_patterns : Len(all_patterns[i].models_identified) >= 2

\* no source yields a parsed analysis
NoSource ==
    \/ ~dir_exists
    \/ \A m \in DOMAIN files : \A e \in DOMAIN files[m] :
          ~files[m][e].exists \/ Unparsable(files, m, e)

\* C10: when no source yields a parsed analysis, synthesize_analyses returns
\* the empty result and leaves storage unchanged: nothing saved, no task marked.
C10_NoSourceNoEffect ==
    [][NoSource =>
        /\ ret'.kind = "empty"
        /\ skill_tasks' = skill_tasks
        /\ skill_patterns' = skill_patterns
        /\ saved' = <<>>
        /\ analyzed_ids' = {}
      ]_vars

\* C10 witness: the call returned empty with every present file unparsable
\* and the tasks still pending
C10_Witness ==
    /\ runs > 0
    /\ dir_exists
    /\ NoSource
    /\ \E m \in DOMAIN files : Unparsable(files, m, ".json")
    /\ ret.kind = "empty"
    /\ \A i \in DOMAIN skill_tasks : ~skill_tasks[i].analyzed

\* C2 as stated: each of frequency, consistency_score and skill_viability of
\* a merged pattern is >= the value every contributing source reported.
C2_ScoresNeverBelowReported ==
    Synthesized =>
        \A pid \in MergedKeys :
            \A field \in {"frequency", "consistency_score", "skill_viability"} :
                \A x \in GivenScores(pid, field) : skill_patterns[pid][field] >= x

\* C2 amended: frequency and consistency_score of a merged pattern are >=
\* every value read for the key, and skill_viability is >= min(10, v) for
\* every value v read for it: only the ceiling of 10 lowers a score.
C2_ScoresNeverBelowReportedUpToCeiling ==
    Synthesized =>
        \A pid \in MergedKeys :
            /\ \A x \in ReportedScores(pid, "frequency", DefaultFrequency) :
                  skill_patterns[pid].frequency >= x
            /\ \A x \in ReportedScores(pid, "consistency_score", DefaultConsistency) :
                  skill_patterns[pid].consistency_score >= x
            /\ \A x \in ReportedScores(pid, "skill_viability", DefaultViability) :
                  skill_patterns[pid].skill_viability >= Min(ViabilityCeiling, x)

\* C2 witness: a pattern of two sources stored with a frequency and a
\* consistency above what one of them reported and a boosted viability
C2_Witness ==
    /\ Synthesized
    /\ \E pid \in MergedKeys :
          /\ Cardinality(SourcesOf(pid)) >= 2
          /\ \E x \in ReportedScores(pid, "frequency", DefaultFrequency) :
                x < skill_patterns[pid].frequency
          /\ \E x \in ReportedScores(pid, "consistency_score", DefaultConsistency) :
                x < skill_patterns[pid].consistency_score
          /\ \A x \in ReportedScores(pid, "skill_viability", DefaultViability) :
                x < skill_patterns[pid].skill_viability

\* the task identifiers the sources reported for key k
ReportedRefs(k) == UNION {Range(Get(e, "task_references", <<>>)) : e \in ReportedEntries(k)}

NoDuplicates(s) == \A i, j \in DOMAIN s : s[i] = s[j] => i = j

\* C5: task_references of every merged pattern, of one source or of several,
\* holds exactly the union of the identifiers reported for the key, each once.
C5_TaskReferencesIsTheUnion ==
    Synthesized =>
        \A pid \in MergedKeys :
            /\ Range(skill_patterns[pid].task_references) = ReportedRefs(pid)
            /\ NoDuplicates(skill_patterns[pid].task_references)

\* the scores and the set of task references of two records agree
SameValues(a, b) ==
    /\ a.pattern_id = b.pattern_id
    /\ a.frequency = b.frequency
    /\ a.consistency_score = b.consistency_score
    /\ a.skill_viability = b.skill_viability
    /\ Range(a.task_references) = Range(b.task_references)

\* C8: a second synthesize_analyses on the same response files yields the
\* same merged patterns as the first: the same keys and, per key, the same
\* frequency, consistency_score, skill_viability and set of task_references,
\* in the result and in storage.
C8_RerunGivesTheSamePatterns ==
    [][(Synthesized /\ ret'.kind = "synthesis") =>
        /\ Len(all_patterns') = Len(all_patterns)
        /\ \A i \in DOMAIN all_patterns : SameValues(all_patterns'[i], all_patterns[i])
        /\ DOMAIN skill_patterns' = DOMAIN skill_patterns
        /\ \A pid \in DOMAIN skill_patterns :
              SameValues(skill_patterns'[pid], skill_patterns[pid])
      ]_vars

\* C8 witness: a second run has completed over two sources that share a
\* pattern with two distinct task references
C8_Witness ==
    /\ runs >= 2
    /\ Synthesized
    /\ \E pid \in MergedKeys :
          /\ Cardinality(SourcesOf(pid)) >= 2
          /\ Cardinality(Range(skill_patterns[pid].task_references)) >= 2

\* both files of source m exist and the load loop parses both
BothParse(m) ==
    \A e \in Range(Exts) : files[m][e].exists /\ ParseFile(files[m][e], e).kind = "doc"

\* C11: when analysis_<source>.json and analysis_<source>.md both exist and
\* both parse, the analysis used for the source is the content of the JSON file.
C11_JsonFilePreferred ==
    Synthesized =>
        \A m \in Range(Models) :
            BothParse(m) =>
                /\ m \in DOMAIN analyses
                /\ analyses[m] = ParseFile(files[m][".json"], ".json").doc

\* what the specified extraction rule makes of a text: the whole text, and
\* the first fenced block only if the whole text fails
WholeThenFence(f) ==
    IF f.whole.kind = "doc" THEN f.whole
    ELSE IF f.fence.kind = "doc" THEN f.fence
    ELSE Bad

\* the files of source m that are present
Present(m) == {e \in Range(Exts) : files[m][e].exists}

\* C12: every response file, whichever its extension, is parsed as the whole
\* text first and as its first json fenced block only if that fails; a source
\* is reported failed only when both attempts fail.
C12_WholeTextThenFence ==
    (runs > 0 /\ dir_exists) =>
        \A m \in Range(Models) :
            /\ m \in DOMAIN analyses
                  <=> \E e \in Present(m) : WholeThenFence(files[m][e]).kind = "doc"
            /\ \A e \in Present(m) :
                  (Present(m) = {e} /\ WholeThenFence(files[m][e]).kind = "doc") =>
                      /\ m \in DOMAIN analyses
                      /\ analyses[m] = WholeThenFence(files[m][e]).doc

\* the pending-task listing the call reads
PendingListing == get_unanalyzed_tasks(skill_tasks, DefaultLimit)

\* the first n entries of the listing, as task identifiers
FirstListed(n) == {PendingListing[i].task_id : i \in {j \in DOMAIN PendingListing : j <= n}}

\* C13: after synthesize_analyses completes with at least one parsed source,
\* the set of tasks marked analyzed is the union, over the parsed sources, of
\* the first N entries of the pending-task listing, N being the source's
\* tasks_analyzed (0 when absent); every task of the set is stored analyzed
\* and no other task was changed.
C13_MarkedIsUnionOfFirstN ==
    [][ret'.kind = "synthesis" =>
        LET marked == UNION {FirstListed(Get(analyses'[m], "tasks_analyzed", 0))
                             : m \in DOMAIN analyses'}
        IN  /\ analyzed_ids' = marked
            /\ ret'.tasks_marked_analyzed = Cardinality(marked)
            /\ DOMAIN skill_tasks' = DOMAIN skill_tasks
            /\ \A i \in DOMAIN skill_tasks :
                  IF skill_tasks[i].task_id \in marked
                  THEN /\ skill_tasks'[i].task_id = skill_tasks[i].task_id
                       /\ skill_tasks'[i].analyzed
                  ELSE skill_tasks'[i] = skill_tasks[i]
      ]_vars

\* C13 witness: two parsed sources reporting different counts, two tasks
\* marked by the call, and a third, older task left pending
C13_Witness ==
    /\ Synthesized
    /\ \E m, n \in DOMAIN analyses :
          Get(analyses[m], "tasks_analyzed", 0) < Get(analyses[n], "tasks_analyzed", 0)
    /\ Cardinality(analyzed_ids) = 2
    /\ \A i \in DOMAIN skill_tasks :
          skill_tasks[i].task_id \in analyzed_ids => skill_tasks[i].analyzed
    /\ \E i \in DOMAIN skill_tasks : ~skill_tasks[i].analyzed

\* C14: over any sequence of save_task, synthesize_analyses, generate_skills,
\* optimize_skills and status, a task's analyzed flag changes only from false
\* to true: an analyzed task never becomes pending again and no task is
\* deleted.
C14_AnalyzedOnlyRises ==
    [][\A i \in DOMAIN skill_tasks :
          \E j \in DOMAIN skill_tasks' :
             /\ skill_tasks'[j].task_id = skill_tasks[i].task_id
             /\ skill_tasks[i].analyzed => skill_tasks'[j].analyzed
      ]_vars

\* a command other than --synthesize has just run, and it was cmd
JustRan(cmd) == calls' = calls + 1 /\ out'.cmd = cmd

\* C15: after generate_skills has written a skill prompt for a pattern, the
\* pattern's synthesized flag is true, so a second generate_skills run with
\* no synthesis in between does not generate for that pattern again.
C15_GeneratedPatternIsSynthesized ==
    [][JustRan("generate") =>
        /\ \A pid \in out'.generated : skill_patterns'[pid].synthesized
        /\ out.cmd = "generate" => out'.generated \cap out.generated = {}
      ]_vars

\* the tasks with analyzed = false
PendingTasks == {i \in DOMAIN skill_tasks : ~skill_tasks[i].analyzed}

\* no table changes in the step
StorageUnchanged ==
    /\ skill_tasks' = skill_tasks
    /\ skill_patterns' = skill_patterns
    /\ ai_skills' = ai_skills
    /\ skill_usage' = skill_usage

\* C18 as stated: --analyze emits an analysis prompt if and only if the
\* number of tasks with analyzed = false is >= analysis_threshold at the time
\* of the check; below the threshold no prompt is generated and storage is
\* not changed.
C18_PromptIffThresholdReached ==
    [][JustRan("analyze") =>
        /\ out'.kind = "prompt" <=> Cardinality(PendingTasks) >= analysis_threshold
        /\ Cardinality(PendingTasks) < analysis_threshold => StorageUnchanged
      ]_vars

\* C18 amended: --analyze emits an analysis prompt if and only if the number
\* of tasks with analyzed = false is >= analysis_threshold and at least one
\* task is pending; the prompt covers the pending tasks, and with or without
\* a prompt storage is not changed.
C18_PromptIffThresholdReachedAndPending ==
    [][JustRan("analyze") =>
        /\ out'.kind = "prompt"
              <=> (/\ Cardinality(PendingTasks) >= analysis_threshold
                   /\ Cardinality(PendingTasks) >= 1)
        /\ out'.kind = "prompt" =>
              /\ Range(out'.tasks) = {skill_tasks[i].task_id : i \in PendingTasks}
              /\ out'.tasks_analyzed = Cardinality(PendingTasks)
        /\ StorageUnchanged
      ]_vars

\* C18 witness: a prompt was emitted with exactly analysis_threshold tasks
\* pending, beside a task that is already analyzed
C18_Witness ==
    /\ out.cmd = "analyze"
    /\ out.kind = "prompt"
    /\ analysis_threshold >= 1
    /\ Cardinality(PendingTasks) = analysis_threshold
    /\ Len(out.tasks) = analysis_threshold
    /\ \E i \in DOMAIN skill_tasks : skill_tasks[i].analyzed

\* the usage events of skill sid
EventsOf(sid) == {i \in DOMAIN skill_usage : skill_usage[i].skill_id = sid}

\* C16: in every state reached by save_skill and log_usage calls, a skill
\* with at least one usage event has total_uses equal to the number of its
\* events and success_rate equal to its successful events divided by that
\* number (to the three decimals stored).
C16_AggregatesAreDerived ==
    \A sid \in DOMAIN ai_skills :
        EventsOf(sid) # {} =>
            /\ ai_skills[sid].total_uses = Cardinality(EventsOf(sid))
            /\ ai_skills[sid].success_rate \in
                  RoundOutcomes(RateScale * Cardinality({i \in EventsOf(sid) :
                                                          skill_usage[i].success}),
                                Cardinality(EventsOf(sid)))

\* the skills with at least one use
UsedSkills == {sid \in DOMAIN ai_skills : ai_skills[sid].total_uses > 0}

\* C17: the average success rate of the system overview is the mean of
\* success_rate over exactly the skills with at least one use (0 when there
\* is none): a never-used skill does not change it.
C17_AverageOverUsedSkills ==
    out.cmd = "status" =>
        out.overview.avg_success_rate \in
            (IF UsedSkills = {} THEN {0}
             ELSE RoundOutcomes(SumOver([sid \in UsedSkills |-> ai_skills[sid].success_rate],
                                        UsedSkills),
                                Cardinality(UsedSkills)))

\* the position of a source in the merge order
ModelIndex(m) == CHOOSE i \in DOMAIN Models : Models[i] = m

\* the recommendations of source m whose normalized name is k
RecsFor(m, k) ==
    LET l == Get(analyses[m], "recommended_skills", <<>>)
    IN  {i \in DOMAIN l : Normalize(Get(l[i], "skill_name", <<>>)) = k}

\* the sources that proposed the normalized name k
ProposersOf(k) == {m \in DOMAIN analyses : RecsFor(m, k) # {}}

\* the first proposal of k in merge order
FirstProposal(k) ==
    LET m == CHOOSE x \in ProposersOf(k) :
                 \A y \in ProposersOf(k) : ModelIndex(x) <= ModelIndex(y)
        i == CHOOSE x \in RecsFor(m, k) : \A y \in RecsFor(m, k) : x <= y
    IN  analyses[m].recommended_skills[i]

\* the normalized names the sources proposed
ProposedNames ==
    UNION {{Normalize(Get(analyses[m].recommended_skills[i], "skill_name", <<>>)) :
               i \in DOMAIN Get(analyses[m], "recommended_skills", <<>>)}
           : m \in DOMAIN analyses}

\* C19: skill recommendations are merged by normalized name: the merged set
\* has one entry per distinct normalized name, the entry keeps the fields of
\* the first source that proposed it unchanged, and its models_recommended
\* names every source that proposed the name, in merge order.
C19_SkillsMergedByName ==
    Synthesized =>
        /\ {all_skills[i].key : i \in DOMAIN all_skills} = ProposedNames
        /\ \A i, j \in DOMAIN all_skills : all_skills[i].key = all_skills[j].key => i = j
        /\ ret.skills_recommended = Cardinality(ProposedNames)
        /\ \A i \in DOMAIN all_skills :
              LET entry == all_skills[i].entry
                  first == FirstProposal(all_skills[i].key)
                  named == entry.models_recommended
              IN  /\ DOMAIN entry = DOMAIN first \cup {"models_recommended"}
                  /\ \A f \in DOMAIN first \ {"models_recommended"} : entry[f] = first[f]
                  /\ Range(named) = ProposersOf(all_skills[i].key)
                  /\ \A a, b \in DOMAIN named :
                        a < b => ModelIndex(named[a]) <= ModelIndex(named[b])

\* C19 witness: a name proposed under two spellings by two sources, merged
\* into one entry with the first proposer's fields, beside another entry
C19_Witness ==
    /\ Synthesized
    /\ Len(all_skills) >= 2
    /\ \E i \in DOMAIN all_skills :
          /\ Cardinality(ProposersOf(all_skills[i].key)) >= 2
          /\ Len(all_skills[i].entry.models_recommended) >= 2
          /\ \E m \in ProposersOf(all_skills[i].key) :
             \E j \in RecsFor(m, all_skills[i].key) :
                /\ "viability_score" \in DOMAIN analyses[m].recommended_skills[j]
                /\ "viability_score" \in DOMAIN all_skills[i].entry
                /\ analyses[m].recommended_skills[j].viability_score
                      # all_skills[i].entry.viability_score

\* C20: tasks are marked analyzed only after every merged pattern has been
\* persisted: when a save_pattern call fails, the failure propagates out of
\* synthesize_analyses, the run marks no task, and the tasks that were
\* pending are still pending for a later run.
C20_NoTaskMarkedWhenSaveFails ==
    [][/\ Len(saved') < Len(all_patterns') => ret'.kind = "raised"
       /\ ret'.kind = "raised" =>
             /\ analyzed_ids' = {}
             /\ skill_tasks' = skill_tasks
             /\ get_unanalyzed_tasks(skill_tasks', DefaultLimit)
                   = get_unanalyzed_tasks(skill_tasks, DefaultLimit)
       /\ skill_tasks' # skill_tasks =>
             /\ ret'.kind = "synthesis"
             /\ \A i \in DOMAIN all_patterns' :
                   /\ all_patterns'[i].pattern_id \in DOMAIN skill_patterns'
                   /\ skill_patterns'[all_patterns'[i].pattern_id]
                         = PatternRow(all_patterns'[i])
      ]_vars

\* C20 witness: a run raised after it had stored one of two merged patterns,
\* and every task is still pending
C20_Witness ==
    /\ ret.kind = "raised"
    /\ Len(all_patterns) = 2
    /\ Len(saved) = 1
    /\ DOMAIN skill_patterns = {saved[1].pattern_id}
    /\ analyses # <<>>
    /\ \A m \in DOMAIN analyses : Get(analyses[m], "tasks_analyzed", 0) >= 1
    /\ \A i \in DOMAIN skill_tasks : ~skill_tasks[i].analyzed

\* C21: over any sequence of synthesize_analyses, generate_skills and
\* mark_pattern_synthesized, a pattern's synthesized flag never returns from
\* true to false: a pattern marked synthesized is not returned by
\* get_pending_patterns again, also after a later synthesis proposes its key.
C21_SynthesizedNeverReset ==
    [][\A pid \in DOMAIN skill_patterns :
          skill_patterns[pid].synthesized =>
             /\ pid \in DOMAIN skill_patterns'
             /\ skill_patterns'[pid].synthesized
             /\ pid \notin get_pending_patterns(skill_patterns', MinSkillViability)
      ]_vars

\* C22 as stated: every task that synthesize_analyses marks analyzed was
\* included in an analysis prompt generated earlier, whatever save_task calls
\* came between the prompt and the synthesis.
C22_MarkedWasPrompted ==
    [][runs' = runs + 1 => analyzed_ids' \subseteq prompted]_vars

\* C22 amended: every task that synthesize_analyses marks analyzed was
\* pending when the synthesis ran, and so was every pending task saved after
\* it: the marked tasks are the newest pending ones, prompted or not.  They
\* were all listed in the latest analysis prompt when no save_task call came
\* between that prompt and the synthesis.
C22_MarkedAreNewestPending ==
    [][runs' = runs + 1 =>
        /\ analyzed_ids' \subseteq {skill_tasks[i].task_id : i \in PendingTasks}
        /\ \A i, j \in PendingTasks :
              (i < j /\ skill_tasks[i].task_id \in analyzed_ids')
                 => skill_tasks[j].task_id \in analyzed_ids'
        /\ (out.cmd = "analyze" /\ out.kind = "prompt") =>
              /\ analyzed_ids' \subseteq Range(out.tasks)
              /\ analyzed_ids' \subseteq prompted
      ]_vars

\* C22 witness: a synthesis that followed an analysis prompt has marked a
\* task the prompt lists, and left an older prompted task pending
C22_Witness ==
    /\ Synthesized
    /\ out.cmd = "analyze"
    /\ out.kind = "prompt"
    /\ analyzed_ids # {}
    /\ analyzed_ids \subseteq Range(out.tasks)
    /\ \A i \in DOMAIN skill_tasks :
          skill_tasks[i].task_id \in analyzed_ids => skill_tasks[i].analyzed
    /\ \E i \in PendingTasks : skill_tasks[i].task_id \in Range(out.tasks)

====
